---- MODULE Spec2Model ----
(***************************************************************************)
(* Model of png2webp.py: the batch driver main(), the per-file pipeline    *)
(* convert_png_to_webp() and the converter saveWebp() (metadata loop,      *)
(* output-name search, encode), over a small file system.                  *)
(*                                                                         *)
(* File names are sequences of characters, so that suffix tests, the       *)
(* base-name split and the "_<counter>.webp" formatting are computed as    *)
(* the code computes them.  A path is [dir, name] (the string the code     *)
(* passes around); a location is [tree, dir, name]: where a path lands     *)
(* once it is resolved against the working directory ("cwd") or against    *)
(* the script's directory ("script").                                      *)
(***************************************************************************)
EXTENDS Integers, Sequences, FiniteSets, TLC

VARIABLES
    fs,               \* the file system: location -> [kind, mtime, data]
    rootExists,       \* os.path.exists(args.path)
    pathAbsolute,     \* args.path is an absolute path
    cwdIsScriptDir,   \* the working directory is the script's directory
    scriptHasDirs,    \* the script's directory holds the same sub-directories
    use_current_date, \* --use_current_date
    delete_after,     \* --delete_after
    trashAvailable,   \* send2trash is not None
    pc,               \* position of the program
    batch,            \* TRUE inside main()'s walk, FALSE for a direct call
    dirsLeft,         \* os.walk: directories not yet listed
    pending,          \* os.walk: entries of the listed directory not yet iterated
    input_filename,   \* convert_png_to_webp: its argument
    error_saving,     \* convert_png_to_webp: error_saving
    results,          \* convert_png_to_webp: results['filename'], or None
    metadata,         \* saveWebp: img.info as a sequence of <<key, value>>
    idx,              \* saveWebp: number of metadata items already iterated
    output_metadata,  \* saveWebp: the tag map (tag -> string)
    extraTag,         \* saveWebp: the local EXTRA_METADATA_TAG
    fsBefore,         \* the file system when the current conversion was invoked
    log               \* what the run did, in order

vars == <<fs, rootExists, pathAbsolute, cwdIsScriptDir, scriptHasDirs,
          use_current_date, delete_after, trashAvailable, pc, batch, dirsLeft,
          pending, input_filename, error_saving, results, metadata, idx,
          output_metadata, extraTag, fsBefore, log>>

config == <<rootExists, pathAbsolute, cwdIsScriptDir, scriptHasDirs,
            use_current_date, delete_after, trashAvailable>>

None == "None"

\* the value of a path variable that holds no path, and of an event's location
NoPath == [dir |-> None, name |-> <<>>]
NoLoc == [tree |-> None, dir |-> None, name |-> <<>>]

(***************************************************************************)
(* Bounds of the model.                                                    *)
(***************************************************************************)
MaxFiles == 3      \* entries initially present under the root
MaxKeys == 2       \* metadata keys of one image

(***************************************************************************)
(* Strings as character sequences.                                         *)
(***************************************************************************)
DOT_PNG == <<".", "p", "n", "g">>
DOT_WEBP == <<".", "w", "e", "b", "p">>

A_PNG == <<"a">> \o DOT_PNG
A1_PNG == <<"a", "_", "1">> \o DOT_PNG
B_UPPER == <<"b", ".", "P", "N", "G">>
C_JPG == <<"c", ".", "j", "p", "g">>
D_PNG == <<"d">> \o DOT_PNG
A_WEBP == <<"a">> \o DOT_WEBP
A1_WEBP == <<"a", "_", "1">> \o DOT_WEBP

LowerChar(c) ==
    CASE c = "P" -> "p"
      [] c = "N" -> "n"
      [] c = "G" -> "g"
      [] c = "J" -> "j"
      [] OTHER -> c

Lower(s) == [i \in 1..Len(s) |-> LowerChar(s[i])]

EndsWith(s, suf) ==
    /\ Len(s) >= Len(suf)
    /\ SubSeq(s, Len(s) - Len(suf) + 1, Len(s)) = suf

\* positions of "." in a name
Dots(s) == {i \in 1..Len(s) : s[i] = "."}

Max(S) == CHOOSE x \in S : \A y \in S : y <= x

\* '.'.join(name.split('.')[:-1]): everything before the last dot
BaseName(s) ==
    IF Dots(s) = {} THEN <<>> ELSE SubSeq(s, 1, Max(Dots(s)) - 1)

DigitChar == <<"0", "1", "2", "3", "4", "5", "6", "7", "8", "9">>

RECURSIVE Decimal(_)
Decimal(n) ==
    IF n < 10 THEN <<DigitChar[n + 1]>>
    ELSE Decimal(n \div 10) \o <<DigitChar[(n % 10) + 1]>>

(***************************************************************************)
(* Paths, locations and the file system.                                   *)
(***************************************************************************)
ROOT == "images"
SUBDIR == "images/sub"
WalkOrder == <<ROOT, SUBDIR>>

Path(d, n) == [dir |-> d, name |-> n]
Loc(t, p) == [tree |-> t, dir |-> p.dir, name |-> p.name]

\* a path resolved against the working directory (os.path.exists,
\* pathlib.Path.exists, shutil.copystat, send2trash all do this)
CwdLoc(p) == Loc("cwd", p)

Entry(k, m, d) == [kind |-> k, mtime |-> m, data |-> d]

\* os.path.exists / Path.exists: a broken symbolic link does not exist
Exists(f, l) == l \in DOMAIN f /\ f[l].kind = "file"

\* the directory of a location exists
DirExists(l) == l.tree = "cwd" \/ scriptHasDirs

\* f with location l set to entry e
Put(f, l, e) == [x \in DOMAIN f \cup {l} |-> IF x = l THEN e ELSE f[x]]

\* f without location l
Remove(f, l) == [x \in DOMAIN f \ {l} |-> f[x]]

\* what may be under the root before the run
Candidates ==
    {[loc |-> CwdLoc(Path(ROOT, n)), kind |-> "file"] :
        n \in {A_PNG, A1_PNG, B_UPPER, C_JPG, A_WEBP, A1_WEBP}}
    \cup {[loc |-> CwdLoc(Path(ROOT, D_PNG)), kind |-> "brokenlink"],
          [loc |-> CwdLoc(Path(SUBDIR, A_PNG)), kind |-> "file"]}

\* what may be under the script's directory when it is another directory
ScriptCandidates ==
    {[loc |-> Loc("script", Path(ROOT, A_WEBP)), kind |-> "file"]}

\* the modification time of the files present before the run; a file
\* written during the run has the time "now"
SourceMtime == "old"

FsOf(S) ==
    [l \in {c.loc : c \in S} |->
        Entry((CHOOSE c \in S : c.loc = l).kind, SourceMtime, "original")]

\* the paths convert_png_to_webp is called with directly
CallPaths == {Path(c.loc.dir, c.loc.name) : c \in Candidates}

(***************************************************************************)
(* Images: img.info (key/value pairs in iteration order) and img.getexif().*)
(***************************************************************************)
PROMPT_TAG == 272            \* 0x0110
EXTRA_METADATA_TAG == 271    \* 0x010f

Keys == {"prompt", "workflow", "foo", "parameters"}
Values == {"{\"a\":1}", "\"bar\"", "oops"}

\* json.dumps(json.loads(value)); None when json.loads raises
JsonRoundTrip(v) ==
    CASE v = "{\"a\":1}" -> "{\"a\": 1}"
      [] v = "{}" -> "{}"
      [] v = "\"bar\"" -> "\"bar\""
      [] OTHER -> None

\* the key sequences a dict can iterate: no key twice
KeySeqs(n) ==
    {ks \in UNION {[1..m -> Keys] : m \in 0..n} :
        \A i, j \in 1..Len(ks) : i # j => ks[i] # ks[j]}

MetadataInputs ==
    UNION {{[i \in 1..Len(ks) |-> <<ks[i], vs[i]>>] : vs \in [1..Len(ks) -> Values]} :
             ks \in KeySeqs(MaxKeys)}

\* what img.getexif() may hold before the loop: nothing, a Make tag (0x010f),
\* a Model tag (0x0110)
ExifInputs ==
    {<<>>, [t \in {271} |-> "Canon"], [t \in {272} |-> "EOS"]}

\* the images of the batch model
SampleImages ==
    {[ok |-> FALSE, info |-> <<>>, exif |-> <<>>],
     [ok |-> TRUE, info |-> <<>>, exif |-> <<>>],
     [ok |-> TRUE, info |-> <<<<"prompt", "{\"a\":1}">>>>, exif |-> <<>>],
     [ok |-> TRUE, info |-> <<<<"workflow", "oops">>>>, exif |-> <<>>]}

(***************************************************************************)
(* Initial states.                                                         *)
(***************************************************************************)
Ev(e, p, a) == [ev |-> e, path |-> p, out |-> NoPath, at |-> NoLoc, arg |-> a]

\* the event of a save: the source, the path returned, the location written
WriteEv(p, o, l) == [ev |-> "write", path |-> p, out |-> o, at |-> l, arg |-> None]

Quiescent ==
    /\ dirsLeft = <<>>
    /\ pending = {}
    /\ input_filename = NoPath
    /\ error_saving = FALSE
    /\ results = NoPath
    /\ metadata = <<>>
    /\ idx = 0
    /\ output_metadata = <<>>
    /\ extraTag = EXTRA_METADATA_TAG
    /\ log = <<>>

Init ==
    /\ rootExists \in BOOLEAN
    /\ pathAbsolute \in BOOLEAN
    /\ cwdIsScriptDir \in BOOLEAN
    /\ scriptHasDirs \in (IF pathAbsolute \/ cwdIsScriptDir THEN {FALSE} ELSE BOOLEAN)
    /\ use_current_date \in BOOLEAN
    /\ delete_after \in BOOLEAN
    /\ trashAvailable \in BOOLEAN
    /\ \E S \in SUBSET Candidates, T \in SUBSET ScriptCandidates :
          /\ Cardinality(S) <= MaxFiles
          /\ ~rootExists => S = {}
          /\ ~scriptHasDirs => T = {}
          /\ fs = FsOf(S \cup T)
    /\ fsBefore = fs
    /\ pc = "start"
    /\ batch = FALSE
    /\ Quiescent

(***************************************************************************)
(* saveWebp: output name (lines 79-87) and save location (line 89).        *)
(***************************************************************************)
\* f"{base_name}.webp", f"{base_name}_{counter}.webp"
OutputName(base, counter) ==
    IF counter = 0 THEN base \o DOT_WEBP
    ELSE base \o <<"_">> \o Decimal(counter) \o DOT_WEBP

\* as FreeCounter, with "if" for "while": one collision is stepped over
FreeCounterOnce(f, d, base, counter) ==
    IF Exists(f, CwdLoc(Path(d, OutputName(base, counter))))
    THEN counter + 1
    ELSE counter

\* the while loop of lines 83-86: count up while the candidate exists
RECURSIVE FreeCounter(_, _, _, _)
FreeCounter(f, d, base, counter) ==
    IF Exists(f, CwdLoc(Path(d, OutputName(base, counter))))
    THEN FreeCounter(f, d, base, counter + 1)
    ELSE counter

\* output_path of lines 80-87 for the source path p on file system f
OutputPath(f, p) ==
    LET base == BaseName(p.name)
    IN  Path(p.dir, OutputName(base, FreeCounter(f, p.dir, base, 0)))

\* os.path.join(os.path.dirname(os.path.abspath(__file__)), output_filename):
\* an absolute output_filename is kept, a relative one lands under the
\* script's directory
SaveLoc(out) ==
    IF pathAbsolute \/ cwdIsScriptDir THEN CwdLoc(out) ELSE Loc("script", out)

(***************************************************************************)
(* main(): lines 225-235.                                                  *)
(***************************************************************************)
Listing(d) ==
    {Path(l.dir, l.name) : l \in {x \in DOMAIN fs : x.tree = "cwd" /\ x.dir = d}}

Invoke(p) ==
    /\ input_filename' = p
    /\ error_saving' = FALSE
    /\ results' = NoPath
    /\ fsBefore' = fs
    /\ log' = Append(log, Ev("invoke", p, None))
    /\ pc' = "validate"

\* lines 225-229: the root path is checked, the walk starts
Main ==
    /\ pc = "start"
    /\ IF rootExists
       THEN /\ pc' = "walk"
            /\ batch' = TRUE
            /\ dirsLeft' = WalkOrder
            /\ log' = Append(log, Ev("started", NoPath, None))
       ELSE /\ pc' = "done"
            /\ batch' = FALSE
            /\ dirsLeft' = dirsLeft
            /\ log' = Append(log, Ev("noroot", NoPath, None))
    /\ UNCHANGED <<fs, config, pending, input_filename, error_saving, results,
                   metadata, idx, output_metadata, extraTag, fsBefore>>

\* line 230: os.walk lists the next directory
WalkDir ==
    /\ pc = "walk"
    /\ pending = {}
    /\ dirsLeft # <<>>
    /\ pending' = Listing(Head(dirsLeft))
    /\ dirsLeft' = Tail(dirsLeft)
    /\ UNCHANGED <<fs, config, pc, batch, input_filename, error_saving, results,
                   metadata, idx, output_metadata, extraTag, fsBefore, log>>

\* lines 231-234: one iteration of "for file in files"
WalkFile ==
    /\ pc = "walk"
    /\ \E p \in pending :
          /\ pending' = pending \ {p}
          /\ IF EndsWith(p.name, DOT_PNG)
             THEN Invoke(p)
             ELSE UNCHANGED <<pc, input_filename, error_saving, results,
                              fsBefore, log>>
    /\ UNCHANGED <<fs, config, batch, dirsLeft, metadata, idx, output_metadata,
                   extraTag>>

\* line 235: the walk is over
WalkEnd ==
    /\ pc = "walk"
    /\ pending = {}
    /\ dirsLeft = <<>>
    /\ pc' = "done"
    /\ log' = Append(log, Ev("completed", NoPath, None))
    /\ UNCHANGED <<fs, config, batch, dirsLeft, pending, input_filename,
                   error_saving, results, metadata, idx, output_metadata,
                   extraTag, fsBefore>>

\* convert_png_to_webp called on its own with a path
Call ==
    /\ pc = "start"
    /\ \E p \in CallPaths : Invoke(p)
    /\ batch' = FALSE
    /\ UNCHANGED <<fs, config, dirsLeft, pending, metadata, idx,
                   output_metadata, extraTag>>

(***************************************************************************)
(* convert_png_to_webp: lines 158-185, and saveWebp: lines 56-136.         *)
(***************************************************************************)
\* an exception leaves convert_png_to_webp; nothing above it catches
Raise(kind) ==
    /\ pc' = "raised"
    /\ log' = Append(log, Ev("raise", input_filename, kind))

\* convert_png_to_webp returns
Return == pc' = IF batch THEN "walk" ELSE "done"

\* lines 168-170: saveWebp raised, the handler logs and sets error_saving
SaveFailed(kind) ==
    /\ error_saving' = TRUE
    /\ log' = Append(log, Ev("error", input_filename, kind))
    /\ metadata' = <<>>
    /\ idx' = 0
    /\ output_metadata' = <<>>
    /\ extraTag' = EXTRA_METADATA_TAG
    /\ pc' = "copy"

\* as ValidationError, the extension tested before the existence
ValidationErrorExtensionFirst(f, p) ==
    IF ~EndsWith(Lower(p.name), DOT_PNG) THEN "InvalidInput"
    ELSE IF ~Exists(f, CwdLoc(p)) THEN "NotFound"
    ELSE None

\* lines 158-162: what convert_png_to_webp raises for the path p, if anything
ValidationError(f, p) ==
    IF ~Exists(f, CwdLoc(p)) THEN "NotFound"
    ELSE IF ~EndsWith(Lower(p.name), DOT_PNG) THEN "InvalidInput"
    ELSE None

\* lines 158-163
Validate ==
    /\ pc = "validate"
    /\ IF ValidationError(fs, input_filename) # None
       THEN Raise(ValidationError(fs, input_filename))
       ELSE pc' = "open" /\ log' = log
    /\ UNCHANGED <<fs, config, batch, dirsLeft, pending, input_filename,
                   error_saving, results, metadata, idx, output_metadata,
                   extraTag, fsBefore>>

\* lines 56-59: the image is opened, img.info and img.getexif() are read
OpenImage(images) ==
    /\ pc = "open"
    /\ \E img \in images :
          IF img.ok
          THEN /\ metadata' = img.info
               /\ output_metadata' = img.exif
               /\ idx' = 0
               /\ extraTag' = EXTRA_METADATA_TAG
               /\ pc' = "meta"
               /\ UNCHANGED <<error_saving, log>>
          ELSE SaveFailed("CodecError")
    /\ UNCHANGED <<fs, config, batch, dirsLeft, pending, input_filename,
                   results, fsBefore>>

Open == OpenImage(SampleImages)

\* the tag an item of the loop is stored at (lines 61-71)
TagOf(key, extra) == IF key = "prompt" THEN PROMPT_TAG ELSE extra

\* the string an item of the loop is stored as (lines 62-70)
TagString(key, json) ==
    CASE key = "prompt" -> "Prompt:" \o json
      [] key = "workflow" -> "Workflow:" \o json
      [] OTHER -> key \o ":" \o json

\* as NextExtra, the counter decremented for every key, "prompt" included
NextExtraEveryKey(key, extra) == extra - 1

\* the local EXTRA_METADATA_TAG after an item (lines 67, 71)
NextExtra(key, extra) == IF key = "prompt" THEN extra ELSE extra - 1

\* lines 60-71: one iteration of the metadata loop
MetaItem ==
    /\ pc = "meta"
    /\ idx < Len(metadata)
    /\ LET key == metadata[idx + 1][1]
           json == JsonRoundTrip(metadata[idx + 1][2])
       IN  IF json = None
           THEN SaveFailed("MetadataParseError")
           ELSE /\ output_metadata' =
                      Put(output_metadata, TagOf(key, extraTag), TagString(key, json))
                /\ extraTag' = NextExtra(key, extraTag)
                /\ idx' = idx + 1
                /\ UNCHANGED <<pc, metadata, error_saving, log>>
    /\ UNCHANGED <<fs, config, batch, dirsLeft, pending, input_filename,
                   results, fsBefore>>

\* lines 72-136: the loop is over; the output path is computed, the image is
\* saved and the path is returned
Encode ==
    /\ pc = "meta"
    /\ idx = Len(metadata)
    /\ LET out == OutputPath(fs, input_filename)
           at == SaveLoc(out)
       IN  IF DirExists(at)
           THEN /\ fs' = Put(fs, at, Entry("file", "now", "webp"))
                /\ results' = out
                /\ log' = Append(log, WriteEv(input_filename, out, at))
                /\ metadata' = <<>>
                /\ idx' = 0
                /\ output_metadata' = <<>>
                /\ extraTag' = EXTRA_METADATA_TAG
                /\ pc' = "copy"
                /\ UNCHANGED error_saving
           ELSE SaveFailed("OSError") /\ UNCHANGED <<fs, results>>
    /\ UNCHANGED <<config, batch, dirsLeft, pending, input_filename, fsBefore>>

\* shutil.copystat(src, dst): dst takes the timestamps of src
CopyStat(f, src, dst) == [f EXCEPT ![dst].mtime = f[src].mtime]

\* line 172: the condition of the attribute copy
ShouldCopy == ~use_current_date /\ ~error_saving

\* lines 172-173
Copy ==
    /\ pc = "copy"
    /\ IF ShouldCopy
       THEN IF ~Exists(fs, CwdLoc(results))
            THEN Raise("FileNotFoundError") /\ fs' = fs
            ELSE \E fault \in BOOLEAN :
                    IF fault
                    THEN Raise("FilesystemError") /\ fs' = fs
                    ELSE /\ fs' = CopyStat(fs, CwdLoc(input_filename), CwdLoc(results))
                         /\ log' = Append(log, Ev("copystat", input_filename, None))
                         /\ pc' = "dispose"
       ELSE pc' = "dispose" /\ UNCHANGED <<fs, log>>
    /\ UNCHANGED <<config, batch, dirsLeft, pending, input_filename,
                   error_saving, results, metadata, idx, output_metadata,
                   extraTag, fsBefore>>

Answers == {"no", "NO", "yes", ""}

\* user_input.lower()
LowerAnswer(a) == IF a = "NO" THEN "no" ELSE a

\* as ShouldDispose, without the test of error_saving
ShouldDisposeAlways == delete_after

\* line 176: the condition of the disposal
ShouldDispose == delete_after /\ ~error_saving

\* as AfterPrompt, the source deleted on any answer but "no"
AfterPromptDeletes(f, p, user_input) ==
    IF LowerAnswer(user_input) = "no" THEN f ELSE Remove(f, CwdLoc(p))

\* lines 178-183: the file system after the prompt was answered: neither
\* branch touches a file
AfterPrompt(f, p, user_input) == f

\* lines 176-185
Dispose ==
    /\ pc = "dispose"
    /\ IF ShouldDispose
       THEN IF ~trashAvailable
            THEN \E user_input \in Answers :
                    /\ log' = Append(log, Ev("prompt", input_filename,
                                IF LowerAnswer(user_input) = "no" THEN "abort" ELSE "continue"))
                    /\ Return
                    /\ fs' = AfterPrompt(fs, input_filename, user_input)
            ELSE \E fault \in BOOLEAN :
                    IF fault
                    THEN Raise("FilesystemError") /\ fs' = fs
                    ELSE /\ fs' = Remove(fs, CwdLoc(input_filename))
                         /\ log' = Append(log, Ev("trash", input_filename, None))
                         /\ Return
       ELSE Return /\ UNCHANGED <<fs, log>>
    /\ UNCHANGED <<config, batch, dirsLeft, pending, input_filename,
                   error_saving, results, metadata, idx, output_metadata,
                   extraTag, fsBefore>>

Next ==
    \/ Main
    \/ WalkDir
    \/ WalkFile
    \/ WalkEnd
    \/ Call
    \/ Validate
    \/ Open
    \/ MetaItem
    \/ Encode
    \/ Copy
    \/ Dispose

Spec == Init /\ [][Next]_vars

(***************************************************************************)
(* The converter on any image: a direct call on a small file system, the   *)
(* image read at line 56 drawn from every metadata mapping of up to        *)
(* MaxKeys keys and every initial tag map.                                 *)
(***************************************************************************)
AllImages ==
    {[ok |-> TRUE, info |-> m, exif |-> e] : m \in MetadataInputs, e \in ExifInputs}

OpenAny == OpenImage(AllImages)

InitExtract ==
    /\ rootExists = TRUE
    /\ pathAbsolute = FALSE
    /\ cwdIsScriptDir = TRUE
    /\ scriptHasDirs = FALSE
    /\ use_current_date \in BOOLEAN
    /\ delete_after \in BOOLEAN
    /\ trashAvailable \in BOOLEAN
    /\ fs = FsOf({c \in Candidates : c.loc.name \in {A_PNG, A_WEBP} /\ c.loc.dir = ROOT})
    /\ fsBefore = fs
    /\ pc = "start"
    /\ batch = FALSE
    /\ Quiescent

NextExtract ==
    \/ Call
    \/ Validate
    \/ OpenAny
    \/ MetaItem
    \/ Encode
    \/ Copy
    \/ Dispose

SpecExtract == InitExtract /\ [][NextExtract]_vars

(***************************************************************************)
(* Reading the log.                                                        *)
(***************************************************************************)
Last == log[Len(log)]

\* some event e of the log is about the path p
Logged(e, p) == \E i \in DOMAIN log : log[i].ev = e /\ log[i].path = p

\* the conversion of p succeeded: saveWebp returned its output path
Converted(p) == Logged("write", p)

\* the number of times the pipeline was invoked on p
Invocations(p) ==
    Cardinality({i \in DOMAIN log : log[i].ev = "invoke" /\ log[i].path = p})

\* convert_png_to_webp(p) has returned
Returned(p) ==
    /\ Logged("invoke", p)
    /\ p = input_filename => pc \in {"walk", "done"}

\* name.webp for k = 0, name_k.webp for k >= 1
Suffixed(base, k) ==
    IF k = 0 THEN base \o DOT_WEBP ELSE base \o <<"_">> \o Decimal(k) \o DOT_WEBP

\* a name that ends in .png whatever the case of its letters
IsPngName(n) == EndsWith(Lower(n), DOT_PNG)

(***************************************************************************)
(* C1: every successful conversion writes exactly one new file, next to    *)
(* the source and named after it; the location written is the location     *)
(* that was checked for non-existence and that is returned; no file that   *)
(* existed before the conversion is overwritten or modified.               *)
(***************************************************************************)
C1_WritesTheCheckedPath ==
    /\ \A i \in DOMAIN log :
          (batch /\ log[i].ev = "write") => log[i].at = CwdLoc(log[i].out)
    /\ (batch /\ pc = "copy" /\ results # NoPath) =>
          /\ \A l \in DOMAIN fsBefore : l \in DOMAIN fs /\ fs[l] = fsBefore[l]
          /\ DOMAIN fs \ DOMAIN fsBefore = {CwdLoc(results)}
          /\ results.dir = input_filename.dir
          /\ \E k \in 0..Cardinality(DOMAIN fsBefore) :
                results.name = Suffixed(BaseName(input_filename.name), k)

C3_SourceRemovedOnlyAfterSuccess ==
    [][\A l \in DOMAIN fs :
          (IsPngName(l.name) /\ (l \notin DOMAIN fs' \/ fs'[l] # fs[l])) =>
              /\ delete_after
              /\ l = CwdLoc(input_filename)
              /\ Converted(input_filename)
              /\ log' = Append(log, Ev("trash", input_filename, None))]_vars

\* a batch with delete_after in which one source was moved to the trash and
\* another, whose conversion failed, is still in place
C3_Witness ==
    /\ delete_after
    /\ pc = "done"
    /\ \E i, j \in DOMAIN log :
          /\ log[i].ev = "trash"
          /\ CwdLoc(log[i].path) \notin DOMAIN fs
          /\ log[j].ev = "error"
          /\ CwdLoc(log[j].path) \in DOMAIN fs
          /\ ~Logged("trash", log[j].path)

(***************************************************************************)
(* C4: in a batch no error raised while processing one file propagates:    *)
(* the walk is never left by an exception.                                 *)
(***************************************************************************)
C4_BatchNeverRaises == batch => pc # "raised"

(***************************************************************************)
(* C5: convert_png_to_webp on a path that does not exist fails with        *)
(* NotFound, on an existing path whose name does not end in .png (in any   *)
(* case of the letters) with InvalidInput, and then nothing was decoded,   *)
(* written, copied or disposed: the file system is unchanged.  A path      *)
(* that exists and ends in .png, .PNG, ... is not rejected.                *)
(***************************************************************************)
Rejected(kind) ==
    /\ pc = "raised"
    /\ Len(log) >= 2
    /\ Last = Ev("raise", input_filename, kind)
    /\ log[Len(log) - 1] = Ev("invoke", input_filename, None)
    /\ results = NoPath
    /\ fs = fsBefore

C5_BadInputRejected ==
    (input_filename # NoPath /\ pc # "validate") =>
        IF ~Exists(fsBefore, CwdLoc(input_filename)) THEN Rejected("NotFound")
        ELSE IF ~IsPngName(input_filename.name) THEN Rejected("InvalidInput")
        ELSE ~Logged("raise", input_filename)
             \/ Last.arg \notin {"NotFound", "InvalidInput"}

\* a direct call on an existing file that is no PNG was rejected
C5_Witness ==
    /\ ~batch
    /\ pc = "raised"
    /\ Exists(fs, CwdLoc(input_filename))
    /\ input_filename.name = C_JPG
    /\ Last.arg = "InvalidInput"

(***************************************************************************)
(* C6: while the values are valid JSON, the "prompt" key is stored at      *)
(* PROMPT_TAG as Prompt:<json> and takes no slot; the k-th non-prompt key  *)
(* (k = 0, 1, ...) is stored at EXTRA_METADATA_TAG - k, as Workflow:<json> *)
(* for "workflow" and <key>:<json> otherwise; the counter has gone down by *)
(* one per non-prompt key; a "workflow" key that no other non-prompt key   *)
(* precedes is at the first slot, EXTRA_METADATA_TAG.                      *)
(***************************************************************************)
\* the number of non-prompt keys among the first n items
NonPrompt(n) == Cardinality({i \in 1..n : metadata[i][1] # "prompt"})

C6_TagLayout ==
    pc = "meta" =>
        /\ extraTag = EXTRA_METADATA_TAG - NonPrompt(idx)
        /\ \A j \in 1..idx :
              LET key == metadata[j][1]
                  json == JsonRoundTrip(metadata[j][2])
                  tag == IF key = "prompt" THEN PROMPT_TAG
                         ELSE EXTRA_METADATA_TAG - NonPrompt(j - 1)
              IN  /\ json # None
                  /\ tag \in DOMAIN output_metadata
                  /\ output_metadata[tag] =
                        (CASE key = "prompt" -> "Prompt:" \o json
                           [] key = "workflow" -> "Workflow:" \o json
                           [] OTHER -> key \o ":" \o json)
        /\ \A j \in 1..idx :
              (metadata[j][1] = "workflow" /\ NonPrompt(j - 1) = 0) =>
                  output_metadata[EXTRA_METADATA_TAG] =
                      "Workflow:" \o JsonRoundTrip(metadata[j][2])

\* the loop has run over <<prompt, workflow>>: the prompt took no slot and
\* the workflow is at the first one
C6_Witness ==
    /\ pc = "meta"
    /\ idx = 2
    /\ metadata = <<<<"prompt", "{\"a\":1}">>, <<"workflow", "\"bar\"">>>>
    /\ output_metadata[PROMPT_TAG] = "Prompt:{\"a\": 1}"
    /\ output_metadata[EXTRA_METADATA_TAG] = "Workflow:\"bar\""
    /\ extraTag = EXTRA_METADATA_TAG - 1

(***************************************************************************)
(* C7: every assignment of the metadata loop creates a new entry of the    *)
(* tag map: it overwrites neither the entry of another key nor an entry    *)
(* that was in the map before (the map being built fresh).                 *)
(***************************************************************************)
C7_NoTagOverwritten ==
    [][(pc = "meta" /\ pc' = "meta") =>
          /\ DOMAIN output_metadata \subseteq DOMAIN output_metadata'
          /\ \A t \in DOMAIN output_metadata : output_metadata'[t] = output_metadata[t]]_vars

(***************************************************************************)
(* C8: the attribute copy is attempted exactly for the files converted     *)
(* with use_current_date false, after the write and before any disposal,   *)
(* and once the copy step is over (no fault of the file system injected)   *)
(* the file the conversion wrote has the source's modification time.       *)
(***************************************************************************)
\* the copy step of the pipeline is over for p, without an injected fault
CopyStepOver(p) ==
    \/ Returned(p)
    \/ p = input_filename /\ pc = "dispose"
    \/ p = input_filename /\ pc = "raised" /\ Last.arg = "FileNotFoundError"

C8_OutputCarriesSourceTimes ==
    \A i \in DOMAIN log :
        log[i].ev = "write" =>
            LET p == log[i].path
            IN  /\ Logged("copystat", p) => ~use_current_date
                /\ \A j \in DOMAIN log :
                      (log[j].path = p /\ log[j].ev = "copystat") => i < j
                /\ \A j, k \in DOMAIN log :
                      (log[j].path = p /\ log[j].ev = "copystat"
                       /\ log[k].path = p /\ log[k].ev \in {"prompt", "trash"}) => j < k
                /\ (~use_current_date /\ CopyStepOver(p)) =>
                      /\ Logged("copystat", p)
                      /\ log[i].at \in DOMAIN fs
                      /\ fs[log[i].at].mtime = SourceMtime

(***************************************************************************)
(* C9: when main() has ended, the pipeline was invoked exactly once on     *)
(* every regular file of the tree whose name ends with .png, and on no     *)
(* file of another name.                                                   *)
(***************************************************************************)
C9_EveryPngProcessedOnce ==
    (batch /\ pc \in {"done", "raised"}) =>
        /\ \A l \in DOMAIN fs :
              (l.tree = "cwd" /\ fs[l].kind = "file" /\ EndsWith(l.name, DOT_PNG)) =>
                  Invocations(Path(l.dir, l.name)) = 1
        /\ \A i \in DOMAIN log :
              log[i].ev = "invoke" =>
                  /\ EndsWith(log[i].path.name, DOT_PNG)
                  /\ Invocations(log[i].path) = 1

(***************************************************************************)
(* C10: the prompt is shown only for a converted file, with delete_after   *)
(* set and no trash capability; whenever the disposal of such a file is    *)
(* reached the prompt is shown, after the write and the attribute copy;    *)
(* whatever the answer, the source is still in place, unchanged, and       *)
(* without the trash capability no source is ever removed.                 *)
(***************************************************************************)
C10_PromptIsTheGate ==
    /\ \A i \in DOMAIN log :
          log[i].ev = "prompt" =>
              /\ delete_after
              /\ ~trashAvailable
              /\ \E j \in 1..(i - 1) : log[j].ev = "write" /\ log[j].path = log[i].path
              /\ log[i].arg \in {"abort", "continue"}
              /\ CwdLoc(log[i].path) \in DOMAIN fs
              /\ fs[CwdLoc(log[i].path)] = Entry("file", SourceMtime, "original")
    /\ ~trashAvailable => \A i \in DOMAIN log : log[i].ev # "trash"
    /\ \A i \in DOMAIN log :
          (log[i].ev = "write" /\ delete_after /\ ~trashAvailable
           /\ Returned(log[i].path)) =>
              \E j \in (i + 1)..Len(log) :
                  log[j].ev = "prompt" /\ log[j].path = log[i].path

\* a batch in which the operator answered "no" for one file and something
\* else for another; both sources are still there
C10_Witness ==
    /\ batch
    /\ pc = "done"
    /\ \E i, j \in DOMAIN log :
          /\ log[i].ev = "prompt" /\ log[i].arg = "abort"
          /\ log[j].ev = "prompt" /\ log[j].arg = "continue"
          /\ CwdLoc(log[i].path) \in DOMAIN fs
          /\ CwdLoc(log[j].path) \in DOMAIN fs

====
